---- MODULE Spec2Model ----
(***************************************************************************)
(* Model of the image-convolution engine of src/src/ecnn.ts: Matrix,       *)
(* Picture, Convolutor and PictureConvolutor.                              *)
(*                                                                         *)
(* Numbers.  A JavaScript number is modelled as an exact rational          *)
(* <<num, den>> in lowest terms with den >= 0; den = 0 encodes the         *)
(* non-finite values (<<1,0>> = Infinity, <<-1,0>> = -Infinity,            *)
(* <<0,0>> = NaN).  Floating-point rounding and the sign of zero are not   *)
(* modelled.  The empty tuple <<>> is `undefined`, which is also what a    *)
(* hole of a JavaScript array reads as.                                    *)
(*                                                                         *)
(* Arrays.  A JavaScript array is a sequence; JavaScript index k is        *)
(* sequence index k+1.  Assigning past the end grows the array and leaves  *)
(* holes; map and reduce skip holes.                                       *)
(*                                                                         *)
(* Exceptions.  An operation that returns an object returns either the     *)
(* object or Throw(msg); an operation that mutates a variable leaves the   *)
(* variable alone and records the message in the error variable.           *)
(***************************************************************************)
EXTENDS Integers, Sequences, FiniteSets, TLC

(* ------------------------------ bounds --------------------------------- *)
MaxDim == 4

MaxSteps == 3

MaxKernel == 3

(* ------------------------------ numbers -------------------------------- *)
Abs(x) == IF x < 0 THEN 0 - x ELSE x

Sign(x) == IF x < 0 THEN 0 - 1 ELSE IF x = 0 THEN 0 ELSE 1

RECURSIVE GCD(_, _)
GCD(a, b) == IF b = 0 THEN a ELSE GCD(b, a % b)

Rat(n, d) ==
    IF d = 0 THEN <<Sign(n), 0>>
    ELSE LET g == GCD(Abs(n), Abs(d))
         IN  <<(Sign(d) * n) \div g, Abs(d) \div g>>

Num(x) == <<x, 1>>

undefined == <<>>

NaN == <<0, 0>>

IsFinite(a) == a # undefined /\ a[2] # 0

\* a * b in JavaScript (undefined converts to NaN)
Mul(a, b) ==
    IF a = undefined \/ b = undefined \/ a = NaN \/ b = NaN THEN NaN
    ELSE Rat(a[1] * b[1], a[2] * b[2])

\* a + b in JavaScript
Plus(a, b) ==
    IF a = undefined \/ b = undefined \/ a = NaN \/ b = NaN THEN NaN
    ELSE IF a[2] = 0 /\ b[2] = 0 THEN (IF a = b THEN a ELSE NaN)
    ELSE IF a[2] = 0 THEN a
    ELSE IF b[2] = 0 THEN b
    ELSE Rat(a[1] * b[2] + b[1] * a[2], a[2] * b[2])

\* a / b in JavaScript
Div(a, b) ==
    IF a = undefined \/ b = undefined \/ a = NaN \/ b = NaN THEN NaN
    ELSE Rat(a[1] * b[2], a[2] * b[1])

(* ------------------------------ arrays --------------------------------- *)
\* Array(n).fill(v); a negative length is a RangeError, tested by the caller
ArrayFill(n, v) == [k \in 1..n |-> v]

\* arr[idx] for idx >= 0
ArrayGet(arr, idx) == IF idx < Len(arr) THEN arr[idx + 1] ELSE undefined

\* arr[idx] = val for idx >= 0
ArraySet(arr, idx, val) ==
    IF idx < Len(arr) THEN [arr EXCEPT ![idx + 1] = val]
    ELSE [k \in 1..(idx + 1) |->
            IF k <= Len(arr) THEN arr[k]
            ELSE IF k = idx + 1 THEN val ELSE undefined]

Throw(msg) == [err |-> msg]

IsErr(x) == "err" \in DOMAIN x

(* ------------------------------ Channel -------------------------------- *)
Red == 0

Green == 1

Blue == 2

Channels == {Red, Green, Blue}

(* ------------------------------ Matrix --------------------------------- *)
Matrix(r, c) ==
    IF c * r < 0 THEN Throw("RangeError: Invalid array length")
    ELSE [r |-> r, c |-> c, kernel |-> ArrayFill(c * r, Num(0))]

\* TRUE when checkBounds throws "Out of bounds"
checkBounds(m, r, c) == r >= m.r \/ c >= m.c

\* index is declared index(c, r) and called as index(r, c): its first
\* parameter receives the row and its second the column, so the bounds check
\* sees (row, col) and the flattening computes row + col * this.c.
index(m, c, r) == c + r * m.c

Matrix_at(m, r, c) == ArrayGet(m.kernel, index(m, r, c))

Matrix_set(m, r, c, val) ==
    [m EXCEPT !.kernel = ArraySet(m.kernel, index(m, r, c), val)]

getValues(m) == m.kernel

\* TRUE when setValues throws "Values' lengths don't match"
setValuesThrows(m, values) == Len(values) # Len(m.kernel)

setValues(m, values) == [m EXCEPT !.kernel = values]

\* reduce((prev, curr) => prev + curr) over the elements that are not holes;
\* it is only ever called on the n x n kernel of a Convolutor, n >= 1, which
\* has no hole and is not empty.
RECURSIVE SumFrom(_, _, _)
SumFrom(arr, k, acc) ==
    IF k > Len(arr) THEN acc
    ELSE SumFrom(arr, k + 1,
                 IF arr[k] = undefined THEN acc
                 ELSE IF acc = undefined THEN arr[k] ELSE Plus(acc, arr[k]))

getModulo(m) == SumFrom(m.kernel, 1, undefined)

\* map keeps holes
scale(m, factor) ==
    [m EXCEPT !.kernel =
        [k \in 1..Len(m.kernel) |->
            IF m.kernel[k] = undefined THEN undefined
            ELSE Mul(m.kernel[k], factor)]]

\* TRUE when add throws "Matrix dimensions for addition do not match"
addThrows(m, other) == m.r # other.r \/ m.c # other.c

add(m, other) ==
    [m EXCEPT !.kernel =
        [k \in 1..Len(m.kernel) |->
            IF m.kernel[k] = undefined THEN undefined
            ELSE Plus(m.kernel[k], ArrayGet(getValues(other), k - 1))]]

(* ------------------------------ state ---------------------------------- *)
VARIABLES
    grid,      \* SpecGrid: the Matrix under test
    lastSet,   \* SpecGrid: per cell, the value of the latest set since the
               \*           last whole-array operation (undefined: none)
    gerr,      \* SpecGrid: message of the exception of the last call, or ""
    pic,       \* SpecPicture: the Picture, [red, green, blue] of Matrix
    pixels,    \* SpecPicture: the RGBA buffer pic was built from, or <<>>
    pcall,     \* SpecPicture: the last call made, "new", "r", "c" or "at"
    pres,      \* SpecPicture: what the last call returned, as a tuple
    perr,      \* SpecPicture: message of the exception of the last call, or ""
    convolutor, \* SpecConv: the Convolutor, [matrix]
    rng,       \* the state of the random source
    ccall,     \* SpecConv: the last call made
    cret,      \* SpecConv: the Matrix the last call returned, or Matrix(0, 0)
    cerr,      \* SpecConv: message of the exception of the last call, or ""
    pconv,     \* SpecPC: the PictureConvolutor, [n, toRed, toGreen, toBlue]
    tcall,     \* SpecPC: the call that has just returned tret or thrown terr
               \*         and whose caller has not gone on yet, or "none"
    tret,      \* SpecPC: the Picture that call returned, or an empty one
    trefs,     \* SpecPC: the heap addresses of the channels of tret, or <<>>
    terr,      \* SpecPC: message of the exception of that call, or ""
    steps      \* SpecGrid, SpecPicture: number of calls made so far

gridVars == <<grid, lastSet, gerr>>

picVars == <<pic, pixels, pcall, pres, perr>>

convVars == <<convolutor, rng, ccall, cret, cerr>>

pcVars == <<pconv, tcall, tret, trefs, terr>>

vars == <<grid, lastSet, gerr, pic, pixels, pcall, pres, perr,
          convolutor, rng, ccall, cret, cerr,
          pconv, tcall, tret, trefs, terr, steps>>

Cells == (0..(MaxDim - 1)) \X (0..(MaxDim - 1))

NoneSet == [cell \in Cells |-> undefined]

\* values handed to set, setValues and add
Vals == {Num(1), Num(2)}

\* the value of the variables of the components a specification leaves out
IdleGrid ==
    /\ grid = Matrix(0, 0)
    /\ lastSet = NoneSet
    /\ gerr = ""

IdlePicture ==
    /\ pic = [red |-> Matrix(0, 0), green |-> Matrix(0, 0), blue |-> Matrix(0, 0)]
    /\ pixels = <<>>
    /\ pcall = "new"
    /\ pres = <<>>
    /\ perr = ""

IdleConv ==
    /\ convolutor = [matrix |-> Matrix(0, 0)]
    /\ rng = 0
    /\ ccall = "new"
    /\ cret = Matrix(0, 0)
    /\ cerr = ""

EmptyPicture == [red |-> Matrix(0, 0), green |-> Matrix(0, 0), blue |-> Matrix(0, 0)]

IdlePC ==
    /\ pconv = [n |-> 0]
    /\ tcall = "none"
    /\ tret = EmptyPicture
    /\ trefs = <<>>
    /\ terr = ""

(* ------------------------- SpecGrid: Matrix ---------------------------- *)
InitGrid ==
    /\ IdlePicture
    /\ IdleConv
    /\ IdlePC
    /\ \E r \in 1..MaxDim, c \in 1..MaxDim : grid = Matrix(r, c)
    /\ lastSet = NoneSet
    /\ gerr = ""
    /\ steps = 0

\* set(r, c, val) for any r, c >= 0, in bounds or one past the end
GridSet ==
    /\ steps < MaxSteps
    /\ steps' = steps + 1
    /\ UNCHANGED <<picVars, convVars, pcVars>>
    /\ \E r \in 0..grid.r, c \in 0..grid.c, val \in Vals :
        \/ /\ checkBounds(grid, r, c)
           /\ gerr' = "Out of bounds"
           /\ UNCHANGED <<grid, lastSet>>
        \/ /\ ~checkBounds(grid, r, c)
           /\ grid' = Matrix_set(grid, r, c, val)
           /\ lastSet' = [lastSet EXCEPT ![<<r, c>>] = val]
           /\ gerr' = ""

\* setValues(values) with an array of rows*cols entries, of as many entries
\* as the backing array has now, or of one entry more
GridSetValues ==
    /\ steps < MaxSteps
    /\ steps' = steps + 1
    /\ UNCHANGED <<picVars, convVars, pcVars>>
    /\ \E len \in {grid.r * grid.c, Len(grid.kernel), Len(grid.kernel) + 1},
          val \in Vals :
        LET values == ArrayFill(len, val) IN
        \/ /\ setValuesThrows(grid, values)
           /\ gerr' = "Values' lengths don't match"
           /\ UNCHANGED <<grid, lastSet>>
        \/ /\ ~setValuesThrows(grid, values)
           /\ grid' = setValues(grid, values)
           /\ lastSet' = NoneSet
           /\ gerr' = ""

GridScale ==
    /\ steps < MaxSteps
    /\ steps' = steps + 1
    /\ UNCHANGED <<picVars, convVars, pcVars>>
    /\ grid' = scale(grid, Num(2))
    /\ lastSet' = NoneSet
    /\ gerr' = ""

\* add(other) with a freshly built Matrix of any shape holding one value
GridAdd ==
    /\ steps < MaxSteps
    /\ steps' = steps + 1
    /\ UNCHANGED <<picVars, convVars, pcVars>>
    /\ \E r \in 1..MaxDim, c \in 1..MaxDim, val \in Vals :
        LET other == setValues(Matrix(r, c), ArrayFill(r * c, val)) IN
        \/ /\ addThrows(grid, other)
           /\ gerr' = "Matrix dimensions for addition do not match"
           /\ UNCHANGED <<grid, lastSet>>
        \/ /\ ~addThrows(grid, other)
           /\ grid' = add(grid, other)
           /\ lastSet' = NoneSet
           /\ gerr' = ""

NextGrid == GridSet \/ GridSetValues \/ GridScale \/ GridAdd

SpecGrid == InitGrid /\ [][NextGrid]_vars

\* C1: the backing array of a Matrix always has exactly rows*cols entries,
\* whatever in-bounds set, correctly sized setValues, scale and add happened.
C1_LengthIsRowsTimesCols == Len(grid.kernel) = grid.r * grid.c

\* C2: at(i, j) returns the value of the latest set(i, j, v) on that cell,
\* whatever set calls on other in-bounds cells happened in between.
C2_AtReturnsLastSet ==
    \A cell \in Cells :
        lastSet[cell] # undefined =>
            Matrix_at(grid, cell[1], cell[2]) = lastSet[cell]

(* ------------------------------ Picture -------------------------------- *)
\* the body of the two loops of the constructor for pixel (ir, ic)
PictureStore(p, pix, c, ir, ic) ==
    LET iPixels == 4 * (ic + ir * c) IN
    [red   |-> Matrix_set(p.red, ir, ic, ArrayGet(pix, iPixels)),
     green |-> Matrix_set(p.green, ir, ic, ArrayGet(pix, iPixels + 1)),
     blue  |-> Matrix_set(p.blue, ir, ic, ArrayGet(pix, iPixels + 2))]

\* the inner loop, over ir, from ir on.  No set throws: ir < r and ic < c.
RECURSIVE PictureLoopIr(_, _, _, _, _, _)
PictureLoopIr(p, pix, r, c, ic, ir) ==
    IF ir >= r THEN p
    ELSE PictureLoopIr(PictureStore(p, pix, c, ir, ic), pix, r, c, ic, ir + 1)

\* the outer loop, over ic, from ic on
RECURSIVE PictureLoopIc(_, _, _, _, _)
PictureLoopIc(p, pix, r, c, ic) ==
    IF ic >= c THEN p
    ELSE PictureLoopIc(PictureLoopIr(p, pix, r, c, ic, 0), pix, r, c, ic + 1)

\* new Picture(pixels, r, c) with an array, r >= 0 and c >= 0
PictureFromPixels(pix, r, c) ==
    PictureLoopIc([red |-> Matrix(r, c), green |-> Matrix(r, c), blue |-> Matrix(r, c)],
                  pix, r, c, 0)

\* new Picture({red, green, blue})
PictureFromMatrices(red, green, blue) ==
    IF red.r # green.r \/ green.r # blue.r \/ red.c # green.c \/ green.c # blue.c
    THEN Throw("Picture pixel matrices do not have the same sizes")
    ELSE [red |-> red, green |-> green, blue |-> blue]

\* TRUE when the getter r throws "Mismatching rows in picture"
Picture_rThrows(p) == p.red.r # p.green.r \/ p.green.r # p.blue.r

Picture_r(p) == p.red.r

\* TRUE when the getter c throws "Mismatching columns in picture"
Picture_cThrows(p) == p.red.c # p.green.c \/ p.green.r # p.blue.c

Picture_c(p) == p.red.c

Picture_at(p, r, c) ==
    <<Matrix_at(p.red, r, c), Matrix_at(p.green, r, c), Matrix_at(p.blue, r, c)>>

getChannel(p, channel) == <<p.red, p.green, p.blue>>[channel + 1]

(* ------------------------ SpecPicture: Picture ------------------------- *)
\* the colours of the image source: red, green, blue, yellow, all opaque
Palette ==
    << <<255, 0, 0, 255>>, <<0, 255, 0, 255>>, <<0, 0, 255, 255>>,
       <<255, 255, 0, 255>> >>

\* the RGBA buffers of an r x c image whose pixel p has colour (p + b) mod 4
PixelBuffers(r, c) ==
    { [k \in 1..(4 * r * c) |->
          Num(Palette[((((k - 1) \div 4) + b) % 4) + 1][((k - 1) % 4) + 1])]
      : b \in {0, 1} }

\* what the image source can hand over: a buffer of every shape up to
\* MaxDim x MaxDim and the Picture made of it
Loaded ==
    UNION { { [pixels |-> pix, pic |-> PictureFromPixels(pix, r, c)]
              : pix \in PixelBuffers(r, c) }
            : r \in 1..MaxDim, c \in 1..MaxDim }

InitPicture ==
    /\ IdleGrid
    /\ IdleConv
    /\ IdlePC
    /\ \E img \in Loaded :
            /\ pic = img.pic
            /\ pixels = img.pixels
    /\ pcall = "new"
    /\ pres = <<>>
    /\ perr = ""
    /\ steps = 0

\* new Picture({red, green, blue}) from three Matrix objects whose sides are
\* drawn from two lengths: the shapes agree, are transposed, or differ
NewFromMatrices ==
    /\ steps < MaxSteps
    /\ steps' = steps + 1
    /\ UNCHANGED <<gridVars, convVars, pcVars>>
    /\ pcall' = "new"
    /\ pres' = <<>>
    /\ \E rr \in 1..MaxDim, rc \in 1..MaxDim :
       \E gr \in {rr, rc}, gc \in {rr, rc}, br \in {rr, rc}, bc \in {rr, rc} :
        LET made == PictureFromMatrices(Matrix(rr, rc), Matrix(gr, gc), Matrix(br, bc)) IN
        \/ /\ IsErr(made)
           /\ perr' = made.err
           /\ UNCHANGED <<pic, pixels>>
        \/ /\ ~IsErr(made)
           /\ pic' = made
           /\ pixels' = <<>>
           /\ perr' = ""

\* picture.r
GetR ==
    /\ steps < MaxSteps
    /\ steps' = steps + 1
    /\ UNCHANGED <<gridVars, convVars, pcVars, pic, pixels>>
    /\ pcall' = "r"
    /\ perr' = IF Picture_rThrows(pic) THEN "Mismatching rows in picture" ELSE ""
    /\ pres' = IF Picture_rThrows(pic) THEN <<>> ELSE <<Picture_r(pic)>>

\* picture.c
GetC ==
    /\ steps < MaxSteps
    /\ steps' = steps + 1
    /\ UNCHANGED <<gridVars, convVars, pcVars, pic, pixels>>
    /\ pcall' = "c"
    /\ perr' = IF Picture_cThrows(pic) THEN "Mismatching columns in picture" ELSE ""
    /\ pres' = IF Picture_cThrows(pic) THEN <<>> ELSE <<Picture_c(pic)>>

\* picture.at(r, c) for any r, c >= 0, in bounds or one past the end
GetAt ==
    /\ steps < MaxSteps
    /\ steps' = steps + 1
    /\ UNCHANGED <<gridVars, convVars, pcVars, pic, pixels>>
    /\ pcall' = "at"
    /\ \E r \in 0..pic.red.r, c \in 0..pic.red.c :
        \/ /\ checkBounds(pic.red, r, c)
           /\ perr' = "Out of bounds"
           /\ pres' = <<>>
        \/ /\ ~checkBounds(pic.red, r, c)
           /\ perr' = ""
           /\ pres' = Picture_at(pic, r, c)

NextPicture == NewFromMatrices \/ GetR \/ GetC \/ GetAt

SpecPicture == InitPicture /\ [][NextPicture]_vars

\* C3: a Picture built from an RGBA buffer holds, at every in-bounds (r, c),
\* the red, green and blue samples of pixel c + r*cols of the buffer.
C3_PixelsDeinterleaved ==
    pixels # <<>> =>
        \A r \in 0..(pic.red.r - 1), c \in 0..(pic.red.c - 1) :
            LET p == 4 * (c + r * pic.red.c) IN
            Picture_at(pic, r, c) =
                <<ArrayGet(pixels, p), ArrayGet(pixels, p + 1), ArrayGet(pixels, p + 2)>>

\* TRUE when the three channels of pic have the same rows and the same cols
SameShapes ==
    /\ pic.red.r = pic.green.r /\ pic.green.r = pic.blue.r
    /\ pic.red.c = pic.green.c /\ pic.green.c = pic.blue.c

\* C4: on a Picture whose three channels agree in shape the getters r and c
\* do not throw and return the row count and the column count.
C4_GettersNeverThrow ==
    /\ (pcall = "r" /\ SameShapes) => (perr = "" /\ pres = <<pic.red.r>>)
    /\ (pcall = "c" /\ SameShapes) => (perr = "" /\ pres = <<pic.red.c>>)

(* ----------------------------- Math.random ----------------------------- *)
\* The process-wide random source is a generator with a hidden state: a call
\* returns a number of [0, 1) computed from the state and steps the state.
\* The state is one of four, the number returned is state/4.
Seeds == 0..3

RandomValue(s) == Rat(s, 4)

RandomNext(s) == (5 * s + 3) % 4

(* ----------------------------- Convolutor ------------------------------ *)
Convolutor(n) ==
    IF n % 2 = 0 THEN Throw("Convolutor n must be an odd number")
    ELSE [matrix |-> Matrix(n, n)]

\* the getter n; the matrix of a Convolutor is n x n from its construction
\* on (setValues keeps the shape), so "Convolutor matrix not square" is
\* never thrown
Convolutor_n(conv) == conv.matrix.r

Convolutor_at(conv, r, c) == Matrix_at(conv.matrix, r, c)

Convolutor_setValues(conv, values) ==
    [conv EXCEPT !.matrix = setValues(conv.matrix, values)]

\* the inner loop of randomize, over j, from j on; st is the Convolutor and
\* the state of the random source, [conv, rng]
RECURSIVE randomizeLoopJ(_, _, _)
randomizeLoopJ(st, i, j) ==
    IF j >= Convolutor_n(st.conv) THEN st
    ELSE randomizeLoopJ(
            [conv |-> [st.conv EXCEPT !.matrix = Matrix_set(@, i, j, RandomValue(st.rng))],
             rng  |-> RandomNext(st.rng)],
            i, j + 1)

\* the outer loop of randomize, over i, from i on
RECURSIVE randomizeLoopI(_, _)
randomizeLoopI(st, i) ==
    IF i >= Convolutor_n(st.conv) THEN st
    ELSE randomizeLoopI(randomizeLoopJ(st, i, 0), i + 1)

\* returns the Convolutor and the state of the random source, [conv, rng]
Convolutor_randomize(conv, s) == randomizeLoopI([conv |-> conv, rng |-> s], 0)

\* TRUE when a matrix.at of convolve1 throws "Out of bounds"
convolve1Throws(conv, matrix, r, c) ==
    \E i \in 0..(Convolutor_n(conv) - 1), j \in 0..(Convolutor_n(conv) - 1) :
        checkBounds(matrix, r + i, c + j)

\* the inner loop of convolve1, over j, from j on
RECURSIVE convolve1LoopJ(_, _, _, _, _, _, _)
convolve1LoopJ(conv, matrix, r, c, result, i, j) ==
    IF j >= Convolutor_n(conv) THEN result
    ELSE convolve1LoopJ(conv, matrix, r, c,
            Plus(result, Mul(Convolutor_at(conv, i, j), Matrix_at(matrix, r + i, c + j))),
            i, j + 1)

\* the outer loop of convolve1, over i, from i on
RECURSIVE convolve1LoopI(_, _, _, _, _, _)
convolve1LoopI(conv, matrix, r, c, result, i) ==
    IF i >= Convolutor_n(conv) THEN result
    ELSE convolve1LoopI(conv, matrix, r, c,
            convolve1LoopJ(conv, matrix, r, c, result, i, 0), i + 1)

convolve1(conv, matrix, r, c) ==
    Div(convolve1LoopI(conv, matrix, r, c, Num(0), 0), getModulo(conv.matrix))

\* the inner loop of convolve2d, over j, from j on; result is the Matrix
\* being filled, or the exception thrown so far
RECURSIVE convolve2dLoopJ(_, _, _, _, _)
convolve2dLoopJ(conv, matrix, result, i, j) ==
    IF IsErr(result) \/ j >= result.c THEN result
    ELSE convolve2dLoopJ(conv, matrix,
            IF convolve1Throws(conv, matrix, i, j) THEN Throw("Out of bounds")
            ELSE Matrix_set(result, i, j, convolve1(conv, matrix, i, j)),
            i, j + 1)

\* the outer loop of convolve2d, over i, from i on
RECURSIVE convolve2dLoopI(_, _, _, _)
convolve2dLoopI(conv, matrix, result, i) ==
    IF IsErr(result) \/ i >= result.r THEN result
    ELSE convolve2dLoopI(conv, matrix, convolve2dLoopJ(conv, matrix, result, i, 0), i + 1)

\* convolve2d sizing its result as a "valid" convolution does, one row and
\* one column larger than the code sizes it
convolve2dValidShape(conv, matrix) ==
    convolve2dLoopI(conv, matrix,
        Matrix(matrix.r - Convolutor_n(conv) + 1, matrix.c - Convolutor_n(conv) + 1), 0)

convolve2d(conv, matrix) ==
    convolve2dLoopI(conv, matrix,
        Matrix(matrix.r - Convolutor_n(conv), matrix.c - Convolutor_n(conv)), 0)

deconvolve1(conv, val, r, c) ==
    Div(Mul(Matrix_at(conv.matrix, r, c), val), getModulo(conv.matrix))

\* the body of the four loops of deconvolve2d: the row and the column that
\* result.set is given, and the write
deconvolveRow(conv, i, j, ii, jj) == i * Convolutor_n(conv) + ii

deconvolveCol(conv, i, j, ii, jj) == jj * Convolutor_n(conv) + jj

deconvolveStore(conv, matrix, result, i, j, ii, jj) ==
    IF checkBounds(result, deconvolveRow(conv, i, j, ii, jj), deconvolveCol(conv, i, j, ii, jj))
    THEN Throw("Out of bounds")
    ELSE Matrix_set(result,
                    deconvolveRow(conv, i, j, ii, jj), deconvolveCol(conv, i, j, ii, jj),
                    deconvolve1(conv, Matrix_at(matrix, i, j), ii, jj))

\* the four loops of deconvolve2d, innermost first, each from its last
\* argument on; result is the Matrix being filled, or the exception thrown
RECURSIVE deconvolve2dLoopJj(_, _, _, _, _, _, _)
deconvolve2dLoopJj(conv, matrix, result, i, j, ii, jj) ==
    IF IsErr(result) \/ jj >= Convolutor_n(conv) THEN result
    ELSE deconvolve2dLoopJj(conv, matrix,
            deconvolveStore(conv, matrix, result, i, j, ii, jj), i, j, ii, jj + 1)

RECURSIVE deconvolve2dLoopIi(_, _, _, _, _, _)
deconvolve2dLoopIi(conv, matrix, result, i, j, ii) ==
    IF IsErr(result) \/ ii >= Convolutor_n(conv) THEN result
    ELSE deconvolve2dLoopIi(conv, matrix,
            deconvolve2dLoopJj(conv, matrix, result, i, j, ii, 0), i, j, ii + 1)

RECURSIVE deconvolve2dLoopJ(_, _, _, _, _)
deconvolve2dLoopJ(conv, matrix, result, i, j) ==
    IF IsErr(result) \/ j >= matrix.c THEN result
    ELSE deconvolve2dLoopJ(conv, matrix,
            deconvolve2dLoopIi(conv, matrix, result, i, j, 0), i, j + 1)

RECURSIVE deconvolve2dLoopI(_, _, _, _)
deconvolve2dLoopI(conv, matrix, result, i) ==
    IF IsErr(result) \/ i >= matrix.r THEN result
    ELSE deconvolve2dLoopI(conv, matrix, deconvolve2dLoopJ(conv, matrix, result, i, 0), i + 1)

deconvolve2d(conv, matrix) ==
    deconvolve2dLoopI(conv, matrix,
        Matrix(matrix.r * Convolutor_n(conv), matrix.c * Convolutor_n(conv)), 0)

(* ----------------------- SpecConv: Convolutor -------------------------- *)
\* the kernel sizes tried, the even ones rejected
KernelSizes == 1..MaxKernel

InitConv ==
    /\ IdleGrid
    /\ IdlePC
    /\ \E img \in Loaded :
            /\ pic = img.pic
            /\ pixels = img.pixels
    /\ pcall = "new"
    /\ pres = <<>>
    /\ perr = ""
    /\ convolutor = Convolutor(1)
    /\ rng \in Seeds
    /\ ccall = "new"
    /\ cret = Matrix(0, 0)
    /\ cerr = ""
    /\ steps = 0

\* the image source hands over another picture
LoadPicture ==
    /\ \E img \in Loaded :
            /\ pic' = img.pic
            /\ pixels' = img.pixels
    /\ ccall' = "load"
    /\ cret' = Matrix(0, 0)
    /\ cerr' = ""
    /\ UNCHANGED <<gridVars, pcVars, pcall, pres, perr, convolutor, rng, steps>>

\* new Convolutor(n)
NewConvolutor ==
    /\ ccall' = "new"
    /\ cret' = Matrix(0, 0)
    /\ \E n \in KernelSizes :
        LET made == Convolutor(n) IN
        \/ /\ IsErr(made)
           /\ cerr' = made.err
           /\ UNCHANGED convolutor
        \/ /\ ~IsErr(made)
           /\ cerr' = ""
           /\ convolutor' = made
    /\ UNCHANGED <<gridVars, picVars, pcVars, rng, steps>>

\* convolutor.randomize()
ConvRandomize ==
    /\ ccall' = "randomize"
    /\ cret' = Matrix(0, 0)
    /\ cerr' = ""
    /\ \E done \in {Convolutor_randomize(convolutor, rng)} :
        /\ convolutor' = done.conv
        /\ rng' = done.rng
    /\ UNCHANGED <<gridVars, picVars, pcVars, steps>>

\* convolutor.setValues(values) with n*n ones or with one entry too many
ConvSetValues ==
    /\ ccall' = "setValues"
    /\ cret' = Matrix(0, 0)
    /\ \E extra \in {0, 1} :
        LET n == Convolutor_n(convolutor)
            values == ArrayFill(n * n + extra, Num(1))
        IN
        \/ /\ setValuesThrows(convolutor.matrix, values)
           /\ cerr' = "Values' lengths don't match"
           /\ UNCHANGED convolutor
        \/ /\ ~setValuesThrows(convolutor.matrix, values)
           /\ cerr' = ""
           /\ convolutor' = Convolutor_setValues(convolutor, values)
    /\ UNCHANGED <<gridVars, picVars, pcVars, rng, steps>>

\* convolutor.convolve2d(picture.getChannel(Channel.Red))
Convolve2d ==
    /\ ccall' = "convolve2d"
    /\ \E made \in {convolve2d(convolutor, getChannel(pic, Red))} :
        \/ /\ IsErr(made)
           /\ cerr' = made.err
           /\ cret' = Matrix(0, 0)
        \/ /\ ~IsErr(made)
           /\ cerr' = ""
           /\ cret' = made
    /\ UNCHANGED <<gridVars, picVars, pcVars, convolutor, rng, steps>>

\* convolutor.deconvolve2d(picture.getChannel(Channel.Red))
Deconvolve2d ==
    /\ ccall' = "deconvolve2d"
    /\ \E made \in {deconvolve2d(convolutor, getChannel(pic, Red))} :
        \/ /\ IsErr(made)
           /\ cerr' = made.err
           /\ cret' = Matrix(0, 0)
        \/ /\ ~IsErr(made)
           /\ cerr' = ""
           /\ cret' = made
    /\ UNCHANGED <<gridVars, picVars, pcVars, convolutor, rng, steps>>

NextConv ==
    \/ LoadPicture
    \/ NewConvolutor
    \/ ConvRandomize
    \/ ConvSetValues
    \/ Convolve2d
    \/ Deconvolve2d

SpecConv == InitConv /\ [][NextConv]_vars

\* the red sample at logical cell (x, y) of the loaded picture
G(x, y) == ArrayGet(pixels, 4 * (y + x * pic.red.c))

KernelSum == getModulo(convolutor.matrix)

NonZeroSum == IsFinite(KernelSum) /\ KernelSum[1] # 0

\* sum over the window cells k, k+1, ... of kernel(i, j) * G(r + i, c + j)
RECURSIVE WindowSum(_, _, _)
WindowSum(r, c, k) ==
    LET n == Convolutor_n(convolutor) IN
    IF k >= n * n THEN Num(0)
    ELSE Plus(Mul(Convolutor_at(convolutor, k \div n, k % n), G(r + (k \div n), c + (k % n))),
              WindowSum(r, c, k + 1))

\* C5: with a kernel of non-zero sum and a grid no smaller than the kernel,
\* every cell (r, c) of the output of convolve2d is the kernel-weighted sum
\* of the logical cells (r+i, c+j) of the input divided by the kernel sum.
C5_ConvolveIsNormalisedWindowSum ==
    (/\ ccall = "convolve2d"
     /\ NonZeroSum
     /\ pic.red.r >= Convolutor_n(convolutor)
     /\ pic.red.c >= Convolutor_n(convolutor))
    => /\ cerr = ""
       /\ \A r \in 0..(pic.red.r - Convolutor_n(convolutor) - 1),
             c \in 0..(pic.red.c - Convolutor_n(convolutor) - 1) :
            Matrix_at(cret, r, c) = Div(WindowSum(r, c, 0), KernelSum)

\* C6: convolve2d fails whenever the grid has fewer rows or fewer columns
\* than the kernel; it returns no Matrix then.
C6_KernelLargerThanInputFails ==
    (/\ ccall = "convolve2d"
     /\ (pic.red.r < Convolutor_n(convolutor) \/ pic.red.c < Convolutor_n(convolutor)))
    => cerr # ""

\* C7: when deconvolve2d returns, the result has shape (R*n, C*n) and its
\* cell (i*n + ii, j*n + jj) holds kernel(ii, jj) * grid(i, j) / kernel sum.
C7_DeconvolveTiles ==
    (ccall = "deconvolve2d" /\ NonZeroSum /\ cerr = "")
    => LET n == Convolutor_n(convolutor) IN
       /\ cret.r = pic.red.r * n
       /\ cret.c = pic.red.c * n
       /\ \A i \in 0..(pic.red.r - 1), j \in 0..(pic.red.c - 1),
             ii \in 0..(n - 1), jj \in 0..(n - 1) :
            Matrix_at(cret, i * n + ii, j * n + jj) =
                Div(Mul(Convolutor_at(convolutor, ii, jj), G(i, j)), KernelSum)

\* C10: deconvolve2d of a grid with at least one row and one column never
\* throws "Out of bounds", whatever the odd kernel size.
C10_DeconvolveNeverOutOfBounds ==
    (ccall = "deconvolve2d" /\ pic.red.r >= 1 /\ pic.red.c >= 1) => cerr = ""

(* -------------------------- PictureConvolutor -------------------------- *)
\* Objects that the PictureConvolutor mutates in place (scale and add return
\* this) live in a heap, a sequence of Matrix; a reference is an index of it
\* and a Picture on the heap is [red, green, blue] of references.  A throw
\* is [err, heap].
ThrowH(msg, h) == [err |-> msg, heap |-> h]

makeWeightedColoredConvolutor(n) ==
    IF IsErr(Convolutor(n)) THEN Convolutor(n)
    ELSE [fromRed |-> Convolutor(n), fromGreen |-> Convolutor(n),
          fromBlue |-> Convolutor(n), weights |-> ArrayFill(3, Num(1))]

PictureConvolutor(n) ==
    IF IsErr(makeWeightedColoredConvolutor(n)) THEN makeWeightedColoredConvolutor(n)
    ELSE [n |-> n,
          toRed |-> makeWeightedColoredConvolutor(n),
          toGreen |-> makeWeightedColoredConvolutor(n),
          toBlue |-> makeWeightedColoredConvolutor(n)]

getWeightedColoredConvolutor(pc, channel) ==
    <<pc.toRed, pc.toGreen, pc.toBlue>>[channel + 1]

\* line 255 with the array that map builds assigned to the weights
randomizeWeightsStored(weights, s) ==
    [weights |-> <<RandomValue(s), RandomValue(RandomNext(s)),
                   RandomValue(RandomNext(RandomNext(s)))>>,
     rng |-> RandomNext(RandomNext(RandomNext(s)))]

\* weights.map(() => Math.random()): three numbers are drawn, the array map
\* builds is dropped, the weights stay.  Returns the weights and the state
\* of the random source.
randomizeWeights(weights, s) ==
    [weights |-> weights, rng |-> RandomNext(RandomNext(RandomNext(s)))]

\* randomizeChannel on the WeightedColoredConvolutor wcc
randomizeWcc(wcc, s) ==
    LET red   == Convolutor_randomize(wcc.fromRed, s)
        green == Convolutor_randomize(wcc.fromGreen, red.rng)
        blue  == Convolutor_randomize(wcc.fromBlue, green.rng)
        w     == randomizeWeights(wcc.weights, blue.rng)
    IN  [wcc |-> [fromRed |-> red.conv, fromGreen |-> green.conv,
                  fromBlue |-> blue.conv, weights |-> w.weights],
         rng |-> w.rng]

randomizeChannel(pc, channel, s) ==
    LET done == randomizeWcc(getWeightedColoredConvolutor(pc, channel), s) IN
    [pc  |-> CASE channel = Red   -> [pc EXCEPT !.toRed = done.wcc]
               [] channel = Green -> [pc EXCEPT !.toGreen = done.wcc]
               [] channel = Blue  -> [pc EXCEPT !.toBlue = done.wcc],
     rng |-> done.rng]

PictureConvolutor_randomize(pc, s) ==
    LET red   == randomizeChannel(pc, Red, s)
        green == randomizeChannel(red.pc, Green, red.rng)
    IN  randomizeChannel(green.pc, Blue, green.rng)

getConvolutor(pc, fromChannel, toChannel) ==
    LET to == getWeightedColoredConvolutor(pc, toChannel) IN
    <<to.fromRed, to.fromGreen, to.fromBlue>>[fromChannel + 1]

getWeights(pc, toChannel) == getWeightedColoredConvolutor(pc, toChannel).weights

getWeight(pc, fromChannel, toChannel) == getWeights(pc, toChannel)[fromChannel + 1]

getWeightSum(pc, toChannel) == SumFrom(getWeights(pc, toChannel), 1, undefined)

\* made.scale(factor) for a Matrix made just now: it is put on the heap and
\* scaled there
allocScaled(h, made, factor) ==
    IF IsErr(made) THEN ThrowH(made.err, h)
    ELSE [heap |-> Append(h, scale(made, factor)), ref |-> Len(h) + 1]

convolvePartial(pc, h, fromChannel, toChannel, picture) ==
    allocScaled(h,
        convolve2d(getConvolutor(pc, fromChannel, toChannel),
                   h[getChannel(picture, fromChannel)]),
        getWeight(pc, fromChannel, toChannel))

deconvolvePartial(pc, h, fromChannel, toChannel, picture) ==
    allocScaled(h,
        deconvolve2d(getConvolutor(pc, fromChannel, toChannel),
                     h[getChannel(picture, fromChannel)]),
        getWeight(pc, fromChannel, toChannel))

\* a.add(b) on the heap
addH(h, a, b) ==
    IF addThrows(h[a], h[b])
    THEN ThrowH("Matrix dimensions for addition do not match", h)
    ELSE [heap |-> [h EXCEPT ![a] = add(h[a], h[b])], ref |-> a]

\* red.add(green).add(blue).scale(weightSum) for the three partial results
combine(red, green, blue, weightSum) ==
    IF IsErr(red) THEN red
    ELSE IF IsErr(green) THEN green
    ELSE IF IsErr(blue) THEN blue
    ELSE LET first == addH(blue.heap, red.ref, green.ref) IN
         IF IsErr(first) THEN first
         ELSE LET second == addH(first.heap, first.ref, blue.ref) IN
              IF IsErr(second) THEN second
              ELSE [heap |-> [second.heap EXCEPT ![second.ref] = scale(@, weightSum)],
                    ref |-> second.ref]

convolveChannel(pc, h, toChannel, picture) ==
    LET convRed   == convolvePartial(pc, h, Red, toChannel, picture)
        convGreen == IF IsErr(convRed) THEN convRed
                     ELSE convolvePartial(pc, convRed.heap, Green, toChannel, picture)
        convBlue  == IF IsErr(convGreen) THEN convGreen
                     ELSE convolvePartial(pc, convGreen.heap, Blue, toChannel, picture)
    IN  combine(convRed, convGreen, convBlue, getWeightSum(pc, toChannel))

deconvolveChannel(pc, h, toChannel, picture) ==
    LET deconvRed   == deconvolvePartial(pc, h, Red, toChannel, picture)
        deconvGreen == IF IsErr(deconvRed) THEN deconvRed
                       ELSE deconvolvePartial(pc, deconvRed.heap, Green, toChannel, picture)
        deconvBlue  == IF IsErr(deconvGreen) THEN deconvGreen
                       ELSE deconvolvePartial(pc, deconvGreen.heap, Blue, toChannel, picture)
    IN  combine(deconvRed, deconvGreen, deconvBlue, getWeightSum(pc, toChannel))

\* new Picture({red, green, blue}) of three channel results on the heap
assemble(red, green, blue) ==
    IF IsErr(red) THEN red
    ELSE IF IsErr(green) THEN green
    ELSE IF IsErr(blue) THEN blue
    ELSE LET h == blue.heap
             made == PictureFromMatrices(h[red.ref], h[green.ref], h[blue.ref])
         IN  IF IsErr(made) THEN ThrowH(made.err, h)
             ELSE [heap |-> h,
                   picture |-> [red |-> red.ref, green |-> green.ref, blue |-> blue.ref]]

convolvePicture(pc, h, picture) ==
    LET red   == convolveChannel(pc, h, Red, picture)
        green == IF IsErr(red) THEN red ELSE convolveChannel(pc, red.heap, Green, picture)
        blue  == IF IsErr(green) THEN green ELSE convolveChannel(pc, green.heap, Blue, picture)
    IN  assemble(red, green, blue)

deconvolvePicture(pc, h, picture) ==
    LET red   == deconvolveChannel(pc, h, Red, picture)
        green == IF IsErr(red) THEN red ELSE deconvolveChannel(pc, red.heap, Green, picture)
        blue  == IF IsErr(green) THEN green ELSE deconvolveChannel(pc, green.heap, Blue, picture)
    IN  assemble(red, green, blue)

(* -------------------- SpecPC: PictureConvolutor ------------------------ *)
InitPC ==
    /\ IdleGrid
    /\ \E img \in Loaded :
            /\ pic = img.pic
            /\ pixels = img.pixels
    /\ pcall = "new"
    /\ pres = <<>>
    /\ perr = ""
    /\ convolutor = [matrix |-> Matrix(0, 0)]
    /\ rng \in Seeds
    /\ ccall = "new"
    /\ cret = Matrix(0, 0)
    /\ cerr = ""
    /\ pconv = PictureConvolutor(1)
    /\ tcall = "none"
    /\ tret = EmptyPicture
    /\ trefs = <<>>
    /\ terr = ""
    /\ steps = 0

\* The program is single-threaded and synchronous: a call returns, its
\* caller takes what it returned or threw, and only then makes the next call.
Continue ==
    /\ tcall # "none"
    /\ tcall' = "none"
    /\ tret' = EmptyPicture
    /\ trefs' = <<>>
    /\ terr' = ""
    /\ UNCHANGED <<gridVars, picVars, convVars, pconv, steps>>

\* the image source hands over another picture
TLoadPicture ==
    /\ tcall = "none"
    /\ \E img \in Loaded :
            /\ pic' = img.pic
            /\ pixels' = img.pixels
    /\ UNCHANGED <<gridVars, convVars, pcVars, pcall, pres, perr, steps>>

\* pictureConvolutor = new PictureConvolutor(n); with an even n the
\* constructor throws and the assignment does not happen
NewPictureConvolutor ==
    /\ tcall = "none"
    /\ \E n \in KernelSizes :
        pconv' = IF IsErr(PictureConvolutor(n)) THEN pconv ELSE PictureConvolutor(n)
    /\ UNCHANGED <<gridVars, picVars, convVars, tcall, tret, trefs, terr, steps>>

\* pictureConvolutor.randomize()
PCRandomize ==
    /\ tcall = "none"
    /\ \E done \in {PictureConvolutor_randomize(pconv, rng)} :
        /\ pconv' = done.pc
        /\ rng' = done.rng
    /\ UNCHANGED <<gridVars, picVars, convolutor, ccall, cret, cerr,
                   tcall, tret, trefs, terr, steps>>

\* What a call given the loaded picture leaves behind.  The picture is put
\* on the heap at addresses 1, 2 and 3, the call runs, and pic becomes what
\* these addresses hold afterwards.
Returned(tname, made) ==
    /\ tcall' = tname
    /\ pic' = [red |-> made.heap[1], green |-> made.heap[2], blue |-> made.heap[3]]
    /\ \/ /\ IsErr(made)
          /\ terr' = made.err
          /\ tret' = EmptyPicture
          /\ trefs' = <<>>
       \/ /\ ~IsErr(made)
          /\ terr' = ""
          /\ tret' = [red   |-> made.heap[made.picture.red],
                      green |-> made.heap[made.picture.green],
                      blue  |-> made.heap[made.picture.blue]]
          /\ trefs' = <<made.picture.red, made.picture.green, made.picture.blue>>
    /\ UNCHANGED <<gridVars, convVars, pixels, pcall, pres, perr, pconv, steps>>

OnHeap == [red |-> 1, green |-> 2, blue |-> 3]

\* pictureConvolutor.convolvePicture(picture)
ConvolvePicture ==
    /\ tcall = "none"
    /\ \E made \in {convolvePicture(pconv, <<pic.red, pic.green, pic.blue>>, OnHeap)} :
            Returned("convolvePicture", made)

\* pictureConvolutor.deconvolvePicture(picture)
DeconvolvePicture ==
    /\ tcall = "none"
    /\ \E made \in {deconvolvePicture(pconv, <<pic.red, pic.green, pic.blue>>, OnHeap)} :
            Returned("deconvolvePicture", made)

NextPC ==
    \/ Continue
    \/ TLoadPicture
    \/ NewPictureConvolutor
    \/ PCRandomize
    \/ ConvolvePicture
    \/ DeconvolvePicture

SpecPC == InitPC /\ [][NextPC]_vars

\* C8: convolvePicture of an R x C picture, R >= n and C >= n, does not
\* throw; it returns a Picture of three Matrix objects made by the call, each
\* of shape (R - n, C - n), and leaves the three channels it was given as
\* they were.
C8_TransformShape ==
    (/\ tcall = "convolvePicture"
     /\ pic.red.r >= pconv.n
     /\ pic.red.c >= pconv.n)
    => /\ terr = ""
       /\ \A m \in {tret.red, tret.green, tret.blue} :
            m.r = pic.red.r - pconv.n /\ m.c = pic.red.c - pconv.n
       /\ Len(trefs) = 3
       /\ \A k \in 1..3 : trefs[k] > 3
       /\ Cardinality({trefs[k] : k \in 1..3}) = 3
       /\ pic = PictureFromPixels(pixels, pic.red.r, pic.red.c)

\* a convolvePicture of a 4 x 4 picture with 3 x 3 kernels has returned a
\* picture of 1 x 1 channels
C8_Witness ==
    /\ tcall = "convolvePicture"
    /\ pconv.n = 3
    /\ pic.red.r = 4
    /\ pic.red.c = 4
    /\ terr = ""
    /\ tret.red.r = 1
    /\ tret.blue.c = 1

\* C9: whatever randomize, convolvePicture and deconvolvePicture calls were
\* made since the construction, every weight is 1 and the weights of every
\* output channel sum to 3.
C9_WeightsStayOne ==
    \A toChannel \in Channels :
        /\ getWeights(pconv, toChannel) = <<Num(1), Num(1), Num(1)>>
        /\ getWeightSum(pconv, toChannel) = Num(3)

\* randomize has run and has changed a kernel, and a call has returned
C9_Witness ==
    /\ tcall = "deconvolvePicture"
    /\ terr = ""
    /\ \E toChannel \in Channels, fromChannel \in Channels :
         getConvolutor(pconv, fromChannel, toChannel) # Convolutor(pconv.n)

====
